---- MODULE Spec2Model ----
(***************************************************************************)
(* Model of backupmpps.py: the paginated fetch of missing person posters   *)
(* (retrieve_mpps_by_updated_at_date), and the per-record, per-asset       *)
(* pipeline of backup_mpps (download_url -> _compress_file -> upload ->    *)
(* os.remove) run by main().                                               *)
(*                                                                         *)
(* Strings whose structure the code inspects (the Content-Type header and  *)
(* file names) are sequences of tokens, so that split("/"), lower(),       *)
(* strip() and os.path.splitext are computed instead of assumed.           *)
(* The remote API, the asset servers, the compression tools, mv, the       *)
(* object storage and the local file system are the environment: each     *)
(* call draws its outcome from the set of outcomes that call can have.     *)
(***************************************************************************)
EXTENDS Integers, Sequences, FiniteSets, TLC

\* ------------------------------------------------------------------ bounds
\* number of listing pages the server holds
MaxPages == 2
\* largest number of records the pages of the listing hold together
MaxRecords == 2
\* largest number of file-system faults (a failed delete, a failed mv, a
\* download cut while the file is being written) the environment injects in
\* one run; every single step can still be the one that fails
MaxFsFaults == 1

\* ------------------------------------------------------- program constants
None == "None"
tmpdirname == <<"tmp">>
\* the `next` of the last listing page (null); pages are numbered from 1
NoPage == 0

\* ---------------------------------------------------------------- strings
\* str.lower() on the tokens that occur in the model
lower_tok(t) ==
  CASE t = "IMAGE" -> "image"
    [] t = "PNG" -> "png"
    [] t = "Text" -> "text"
    [] t = "HTML" -> "html"
    [] t = "charset=UTF-8" -> "charset=utf-8"
    [] OTHER -> t

lower(s) == [k \in 1..Len(s) |-> lower_tok(s[k])]

RECURSIVE lstrip(_)
lstrip(s) == IF s # <<>> /\ Head(s) = " " THEN lstrip(Tail(s)) ELSE s

RECURSIVE rstrip(_)
rstrip(s) ==
  IF s # <<>> /\ s[Len(s)] = " " THEN rstrip(SubSeq(s, 1, Len(s) - 1)) ELSE s

strip(s) == rstrip(lstrip(s))

\* str.split(sep): the list of the pieces between the separators
RECURSIVE split(_, _)
split(s, sep) ==
  IF \E k \in 1..Len(s) : s[k] = sep
    THEN LET k == CHOOSE j \in 1..Len(s) :
                    s[j] = sep /\ \A m \in 1..(j - 1) : s[m] # sep
         IN  <<SubSeq(s, 1, k - 1)>> \o split(SubSeq(s, k + 1, Len(s)), sep)
    ELSE <<s>>

\* os.path.splitext: <<root, ext>>, the extension starting at the last dot
\* of the last path component
splitext(filename) ==
  LET dots == {k \in 1..Len(filename) :
                 /\ filename[k] = "."
                 /\ \A m \in k..Len(filename) : filename[m] # "/"}
  IN  IF dots = {}
        THEN <<filename, <<>>>>
        ELSE LET k == CHOOSE j \in dots : \A m \in dots : m <= j
             IN  <<SubSeq(filename, 1, k - 1), SubSeq(filename, k, Len(filename))>>

\* os.path.basename
basename(filename) ==
  LET sl == {k \in 1..Len(filename) : filename[k] = "/"}
  IN  IF sl = {}
        THEN filename
        ELSE LET k == CHOOSE j \in sl : \A m \in sl : m <= j
             IN  SubSeq(filename, k + 1, Len(filename))

\* ------------------------------------------------------------ the records
\* the fields of the dataclass Mpp
MppFields ==
  {"id", "slug", "mp_name", "mp_height", "mp_weight", "mp_physical_build",
   "mp_complexion", "mp_sex", "mp_dob", "mp_age_when_disappeared",
   "mp_eyes_description", "mp_hair_description", "mp_outfit_description",
   "mp_identifying_characteristics", "circumstances_behind_dissapearance",
   "missing_from", "missing_date", "found", "alert_type", "po_state",
   "po_post_url", "po_post_publication_date", "po_poster_url", "is_multiple",
   "updated_at", "created_at"}

\* the keys Mpp.from_api_dict reads itself, in the order it reads them
DateKeys ==
  <<"mp_dob", "missing_date", "po_post_publication_date", "updated_at",
    "created_at">>

\* datetime.strptime(..).date() / datetime.fromisoformat on a well-formed
\* value; a null stays None
ParseDate(raw) == IF raw = None THEN None ELSE "date(" \o raw \o ")"

\* Mpp.from_api_dict: the result is [raised, mpp]
Mpp_from_api_dict(api_dict) ==
  IF \E k \in 1..Len(DateKeys) : DateKeys[k] \notin DOMAIN api_dict
    THEN [raised |-> "ExtraviadosMxApiException", mpp |-> None]
  ELSE IF DOMAIN api_dict # MppFields
    THEN [raised |-> "TypeError", mpp |-> None]
  ELSE [raised |-> "none",
        mpp |-> [f \in MppFields |->
                   IF \E k \in 1..Len(DateKeys) : DateKeys[k] = f
                     THEN ParseDate(api_dict[f])
                     ELSE api_dict[f]]]

\* the keys RetrieveMppsApiBody.from_api_dict reads
BodyKeys == {"results", "next", "previous", "count"}

\* the list comprehension over results: the first record that fails ends it
RECURSIVE ParseResults(_)
ParseResults(results) ==
  IF results = <<>>
    THEN [raised |-> "none", results |-> <<>>]
    ELSE LET h == Mpp_from_api_dict(Head(results))
         IN  IF h.raised # "none"
               THEN [raised |-> h.raised, results |-> <<>>]
               ELSE LET t == ParseResults(Tail(results))
                    IN  IF t.raised # "none"
                          THEN t
                          ELSE [raised |-> "none",
                                results |-> <<h.mpp>> \o t.results]

\* RetrieveMppsApiBody.from_api_dict: body is [keys, results, next]
RetrieveMppsApiBody_from_api_dict(body) ==
  IF ~ (BodyKeys \subseteq body.keys)
    THEN [raised |-> "ExtraviadosMxApiException", results |-> <<>>,
          next |-> NoPage]
    ELSE LET p == ParseResults(body.results)
         IN  [raised |-> p.raised, results |-> p.results,
              next |-> IF p.raised = "none" THEN body.next ELSE NoPage]

\* (variant: the status code and the JSON error are not looked at)
_retrieve_unchecked(res) == RetrieveMppsApiBody_from_api_dict(res.body)

\* _retrieve_mpps_by_updated_at_date(url): res is the response of the one
\* GET it issues, [status_code, json, body]
_retrieve_mpps_by_updated_at_date(res) ==
  IF res.status_code # 200
    THEN [raised |-> "ExtraviadosMxApiException", results |-> <<>>,
          next |-> NoPage]
  ELSE IF ~ res.json
    THEN [raised |-> "ExtraviadosMxApiException", results |-> <<>>,
          next |-> NoPage]
  ELSE RetrieveMppsApiBody_from_api_dict(res.body)

\* ---------------------------------------------------------- download_url
\* the Content-Type values a server may declare (or no header at all)
ContentTypeValues ==
  {<<"application", "/", "pdf">>,
   <<"image", "/", "jpeg">>,
   <<"image", "/", "png">>,
   <<"IMAGE", "/", "PNG">>,
   <<" ", "image", "/", "png", " ">>,
   <<"text", "/", "html", ";", " ", "charset=utf-8">>,
   <<"Text", "/", "HTML", ";", " ", "charset=UTF-8">>,
   <<"text", "/", "html">>,
   <<"text", "/", "html", ";", "charset=utf-8">>,
   <<"text", "/", "plain">>,
   <<"image", "/", "jpg">>,
   <<"application", "/", "pdf", ";", " ", "charset=binary">>}

Headers ==
  {[present |-> FALSE, value |-> <<>>]}
    \cup {[present |-> TRUE, value |-> v] : v \in ContentTypeValues}

\* res.headers.get("Content-Type", "")
headers_get(h) == IF h.present THEN h.value ELSE <<>>

\* outcomes of one requests.get: a response, a certificate error, or any
\* other transport error (connection refused, timeout, ...)
GetOutcomes == {"ok", "SSLError", "ConnectionError"}

\* status codes the final response may carry
StatusCodes == {200, 300, 404, 500}

\* outcomes of writing the response to the new file: written, the file could
\* not be opened, or the stream broke after the file was created
WriteOutcomes == {"ok", "OSError", "cut"}

DownloadEnvs ==
  [r1 : GetOutcomes, r2 : GetOutcomes, status_code : StatusCodes,
   headers : Headers, write : WriteOutcomes]

\* Response.raise_for_status raises for the 4xx and 5xx codes
raise_for_status(status_code) == 400 <= status_code /\ status_code < 600

\* the file the two save functions write: [raised, final_filename, files]
WriteFile(write, final_filename) ==
  CASE write = "ok" ->
         [raised |-> "none", final_filename |-> final_filename,
          files |-> {final_filename}]
    [] write = "OSError" ->
         [raised |-> "OSError", final_filename |-> <<>>, files |-> {}]
    [] OTHER ->
         [raised |-> "ProtocolError", final_filename |-> <<>>,
          files |-> {final_filename}]

\* (variant: the part before the slash is taken)
_save_file_type(write, content_type, filename) ==
  LET ext == split(content_type, "/")[1]
  IN  WriteFile(write, filename \o <<".">> \o ext)

_save_file(write, content_type, filename) ==
  LET ext == split(content_type, "/")[2]
  IN  WriteFile(write, filename \o <<".">> \o ext)

_save_text_file(write, filename) ==
  WriteFile(write, filename \o <<".", "html">>)

\* (variant: any failure of the first request is retried)
DownloadRequests_any(env) ==
  IF env.r1 # "ok"
    THEN <<[verify |-> TRUE], [verify |-> FALSE]>>
    ELSE <<[verify |-> TRUE]>>

\* the requests download_url issues: the second one only after an SSLError
DownloadRequests(env) ==
  IF env.r1 = "SSLError"
    THEN <<[verify |-> TRUE], [verify |-> FALSE]>>
    ELSE <<[verify |-> TRUE]>>

\* download_url(url, filename): [raised, final_filename, files, requests]
download_url(env, filename) ==
  LET requests == DownloadRequests(env)
      got == IF Len(requests) = 2 THEN env.r2 ELSE env.r1
      fail(e) == [raised |-> e, final_filename |-> <<>>, files |-> {},
                  requests |-> requests]
      content_type == strip(lower(headers_get(env.headers)))
      saved(w) == [raised |-> w.raised, final_filename |-> w.final_filename,
                   files |-> w.files, requests |-> requests]
  IN  IF got # "ok" THEN fail(got)
      ELSE IF raise_for_status(env.status_code) THEN fail("HTTPError")
      ELSE IF content_type \in {<<"application", "/", "pdf">>,
                                <<"image", "/", "jpeg">>,
                                <<"image", "/", "png">>}
        THEN saved(_save_file(env.write, content_type, filename))
      ELSE IF content_type \in {<<"text", "/", "html", ";", " ", "charset=utf-8">>}
        THEN saved(_save_text_file(env.write, filename))
      ELSE fail("ValueError")

\* ----------------------------------------------------------- compression
\* one run of jpegoptim or pngcrush: it exits with a return code, having
\* written the "Not a ... file" diagnostic to stdout, to stderr or nowhere,
\* or it times out, or the program is not installed
ToolRuns ==
  [kind : {"exit"}, returncode : {0, 1}, diag : {"none", "stdout", "stderr"}]
    \cup {[kind |-> k, returncode |-> 0, diag |-> "none"] :
            k \in {"TimeoutExpired", "FileNotFoundError"}}

\* one run of gs, or of the mv of compress_pdf (both with check=True)
CheckedRuns == {"ok", "CalledProcessError", "TimeoutExpired", "FileNotFoundError"}

\* one run of the mv of _change_extension (return code not looked at)
MvRuns == {"ok", "failed", "FileNotFoundError"}

CompressEnvs ==
  [gs : CheckedRuns, gs_tmp : BOOLEAN, gsmv : CheckedRuns,
   jpegoptim : ToolRuns, pngcrush : ToolRuns, mv : MvRuns]

\* compress_pdf: [raised, msg, filename, fs, tools, logged]; a gs that fails
\* may or may not leave its output file behind
compress_pdf(env, filename, fs) ==
  LET tmp_filename == filename \o <<".", "tmp">>
  IN  IF env.gs # "ok"
        THEN [raised |-> env.gs, msg |-> "", filename |-> filename,
              fs |-> IF env.gs_tmp /\ env.gs # "FileNotFoundError"
                       THEN fs \cup {tmp_filename} ELSE fs,
              tools |-> <<"gs">>, logged |-> "none"]
      ELSE IF env.gsmv # "ok"
        THEN [raised |-> env.gsmv, msg |-> "", filename |-> filename,
              fs |-> fs \cup {tmp_filename}, tools |-> <<"gs", "mv">>,
              logged |-> "none"]
      ELSE [raised |-> "none", msg |-> "", filename |-> filename,
            fs |-> fs, tools |-> <<"gs", "mv">>, logged |-> "none"]

\* _change_extension: the result of mv is ignored, a missing mv raises
_change_extension(mv, filename, new_ext, fs) ==
  LET root == splitext(filename)[1]
      final_filename == root \o new_ext
  IN  CASE mv = "FileNotFoundError" ->
             [raised |-> "FileNotFoundError", msg |-> "", filename |-> filename,
              fs |-> fs, tools |-> <<"mv">>, logged |-> "none"]
        [] mv = "ok" /\ filename \in fs ->
             [raised |-> "none", msg |-> "", filename |-> final_filename,
              fs |-> (fs \ {filename}) \cup {final_filename},
              tools |-> <<"mv">>, logged |-> "none"]
        [] OTHER ->
             [raised |-> "none", msg |-> "", filename |-> final_filename,
              fs |-> fs, tools |-> <<"mv">>, logged |-> "none"]

\* compress_png: check=True raises on a non-zero return code before stderr
\* is looked at
compress_png(run, mv, filename, fs) ==
  LET stop(e, m) == [raised |-> e, msg |-> m, filename |-> filename,
                     fs |-> fs, tools |-> <<"pngcrush">>, logged |-> "none"]
  IN  IF run.kind # "exit" THEN stop(run.kind, "")
      ELSE IF run.returncode # 0 THEN stop("CalledProcessError", "")
      ELSE IF run.diag = "stderr" THEN stop("ValueError", "Not a PNG file")
      ELSE IF splitext(filename)[2] = <<".", "png">>
        THEN stop("none", "")
      ELSE LET c == _change_extension(mv, filename, <<".", "png">>, fs)
           IN  [c EXCEPT !.tools = <<"pngcrush">> \o c.tools]

\* (variant: every non-zero return code is taken for "Not a JPEG file")
compress_jpeg_any(run, mv, filename, fs) ==
  LET stop(e, m) == [raised |-> e, msg |-> m, filename |-> filename,
                     fs |-> fs, tools |-> <<"jpegoptim">>, logged |-> "none"]
  IN  IF run.kind # "exit" THEN stop(run.kind, "")
      ELSE IF run.returncode # 0
        THEN stop("ValueError", "Not a JPEG file")
      ELSE IF splitext(filename)[2] = <<".", "jpeg">>
        THEN stop("none", "")
      ELSE LET c == _change_extension(mv, filename, <<".", "jpeg">>, fs)
           IN  [c EXCEPT !.tools = <<"jpegoptim">> \o c.tools]

\* compress_jpeg: the diagnostic is looked for in the output (stdout) of a
\* run that ended with a non-zero return code
compress_jpeg(run, mv, filename, fs) ==
  LET stop(e, m) == [raised |-> e, msg |-> m, filename |-> filename,
                     fs |-> fs, tools |-> <<"jpegoptim">>, logged |-> "none"]
  IN  IF run.kind # "exit" THEN stop(run.kind, "")
      ELSE IF run.returncode # 0
        THEN IF run.diag = "stdout"
               THEN stop("ValueError", "Not a JPEG file")
               ELSE stop("CalledProcessError", "")
      ELSE IF splitext(filename)[2] = <<".", "jpeg">>
        THEN stop("none", "")
      ELSE LET c == _change_extension(mv, filename, <<".", "jpeg">>, fs)
           IN  [c EXCEPT !.tools = <<"jpegoptim">> \o c.tools]

\* the handlers of _compress_file that log and keep the original name;
\* `logged` is the exception they logged
Caught(r, filename, tools) ==
  [raised |-> "none", msg |-> "", filename |-> filename, fs |-> r.fs,
   tools |-> tools, logged |-> r.raised]

\* (variant: the inner try lets the exception of the sibling format go)
Fallback_reraise(first, second, filename) ==
  [second EXCEPT !.tools = first.tools \o second.tools]

\* the inner try of _compress_file: the sibling format, tried once
Fallback(first, second, filename) ==
  IF second.raised = "none"
    THEN [second EXCEPT !.tools = first.tools \o second.tools]
    ELSE Caught(second, filename, first.tools \o second.tools)

\* (variant: every file that is neither .pdf nor .jpeg is taken for a .png)
_compress_file_else(env, filename, fs) ==
  LET ext == splitext(filename)[2]
  IN  IF ext = <<".", "pdf">>
        THEN LET r == compress_pdf(env, filename, fs)
             IN  IF r.raised = "CalledProcessError"
                   THEN Caught(r, filename, r.tools)
                   ELSE r
      ELSE IF ext = <<".", "jpeg">>
        THEN LET a == compress_jpeg(env.jpegoptim, env.mv, filename, fs)
             IN  IF a.raised = "none" THEN a
                 ELSE IF a.raised = "ValueError" /\ a.msg = "Not a JPEG file"
                   THEN Fallback(a, compress_png(env.pngcrush, env.mv,
                                                 filename, a.fs), filename)
                   ELSE Caught(a, filename, a.tools)
      ELSE LET a == compress_png(env.pngcrush, env.mv, filename, fs)
           IN  IF a.raised = "none" THEN a
               ELSE IF a.raised = "ValueError" /\ a.msg = "Not a PNG file"
                 THEN Fallback(a, compress_jpeg(env.jpegoptim, env.mv,
                                                filename, a.fs), filename)
                 ELSE Caught(a, filename, a.tools)

\* _compress_file(filename): [raised, msg, filename, fs, tools, logged]
_compress_file(env, filename, fs) ==
  LET ext == splitext(filename)[2]
  IN  IF ext = <<".", "pdf">>
        THEN LET r == compress_pdf(env, filename, fs)
             IN  IF r.raised = "CalledProcessError"
                   THEN Caught(r, filename, r.tools)
                   ELSE r
      ELSE IF ext = <<".", "jpeg">>
        THEN LET a == compress_jpeg(env.jpegoptim, env.mv, filename, fs)
             IN  IF a.raised = "none" THEN a
                 ELSE IF a.raised = "ValueError" /\ a.msg = "Not a JPEG file"
                   THEN Fallback(a, compress_png(env.pngcrush, env.mv,
                                                 filename, a.fs), filename)
                   ELSE Caught(a, filename, a.tools)
      ELSE IF ext = <<".", "png">>
        THEN LET a == compress_png(env.pngcrush, env.mv, filename, fs)
             IN  IF a.raised = "none" THEN a
                 ELSE IF a.raised = "ValueError" /\ a.msg = "Not a PNG file"
                   THEN Fallback(a, compress_jpeg(env.jpegoptim, env.mv,
                                                  filename, a.fs), filename)
                   ELSE Caught(a, filename, a.tools)
      ELSE [raised |-> "none", msg |-> "", filename |-> filename, fs |-> fs,
            tools |-> <<>>, logged |-> "none"]

\* ------------------------------------------------------------ the state
VARIABLES
  pc,              \* where main() is
  nextOf,          \* the server's listing: the `next` of every page
  requests,        \* number of GETs issued for every listing page
  api_res_next,    \* api_res.next of retrieve_mpps_by_updated_at_date
  records,         \* records of retrieve_mpps_by_updated_at_date
  served,          \* the pages the server answered the fetch with
  fetched,         \* the last listing response of the fetch, as sent
  returned,        \* retrieve_mpps_by_updated_at_date has returned
  mpps,            \* the list main() passes to backup_mpps
  raised,          \* the exception that ended main(), or "none"
  tmpdir,          \* the TemporaryDirectory: absent, created, removed
  fs,              \* the files in the scratch directory
  i,               \* index of the record of the loop of backup_mpps
  asset,           \* which of the two URLs of the record is processed
  final_filename,  \* final_filename of _process_url
  cur,             \* calls made by the running _process_url
  totals,          \* download_url calls made by the whole run
  attempts,        \* download_url calls per record and asset
  progress,        \* the PROGRESS lines logged
  faults,          \* file-system faults injected so far
  dl,              \* a single call of download_url (SpecDownload)
  cf               \* a single call of _compress_file (SpecCompress)

vars ==
  <<pc, nextOf, requests, api_res_next, records, served, fetched, returned,
    mpps, raised, tmpdir, fs, i, asset, final_filename, cur, totals, attempts,
    progress, faults, dl, cf>>

Pages == 1..MaxPages

Assets == <<"po_post_url", "po_poster_url">>

\* ------------------------------------------------------- the listing API
\* the records a page can hold: complete, complete with the nullable values
\* null, or lacking the named field
RecordKinds == {"full", "nulls"} \cup MppFields

FieldValue(f, id, kind) ==
  CASE f = "id" -> id
    [] f = "mp_name" -> IF kind = "nulls" THEN None ELSE "Juan Perez"
    [] f = "mp_dob" -> IF kind = "nulls" THEN None ELSE "2000-01-22"
    [] f \in {"missing_date", "po_post_publication_date"} -> "2022-01-22"
    [] f \in {"updated_at", "created_at"} -> "2022-05-31T10:00:00"
    [] OTHER -> "v"

ApiDict(kind, id) ==
  [f \in MppFields \ {kind} |-> FieldValue(f, id, kind)]

\* the lists of records a page can hold when serial records were delivered
\* by the pages before it, the ids counted from serial + 1; at most one
\* record of a page lacks a field, at any place in the page
ResultLists(serial) ==
  UNION {{[j \in 1..n |-> ApiDict(kinds[j], ToString(serial + j))] :
            kinds \in {ks \in [1..n -> RecordKinds] :
                         Cardinality({j \in 1..n : ks[j] \in MppFields}) <= 1}} :
         n \in 0..(MaxRecords - serial)}

\* what the server can answer to the GET of page k
PageResponses(k, serial) ==
  {[status_code |-> 200, json |-> TRUE,
    body |-> [keys |-> BodyKeys, results |-> rs, next |-> nextOf[k]]] :
      rs \in ResultLists(serial)}
  \cup {[status_code |-> 200, json |-> TRUE,
         body |-> [keys |-> BodyKeys \ {key}, results |-> <<>>,
                   next |-> nextOf[k]]] : key \in BodyKeys}
  \cup {[status_code |-> sc, json |-> js,
         body |-> [keys |-> BodyKeys, results |-> <<>>, next |-> nextOf[k]]] :
          sc \in {200, 404, 500}, js \in BOOLEAN}

\* the response as the server sent it
Sent(k, res) ==
  [page |-> k, status_code |-> res.status_code, json |-> res.json,
   lacks |-> UNION {MppFields \ DOMAIN res.body.results[j] :
                      j \in 1..Len(res.body.results)}]

RawIds(results) ==
  [j \in 1..Len(results) |->
     IF "id" \in DOMAIN results[j] THEN results[j]["id"] ELSE "?"]

\* ------------------------------------------------------------------ main
\* the loop test of retrieve_mpps_by_updated_at_date
LoopContinues(next) == next # NoPage

\* (variant: records = api_res.results)
Accumulate_last(recs, results) == results

\* records += api_res.results
Accumulate(recs, results) == recs \o results

\* one call of _retrieve_mpps_by_updated_at_date for page k
Fetch(k, recs) ==
  \E res \in PageResponses(k, Len(recs)) :
    LET r == _retrieve_mpps_by_updated_at_date(res)
    IN  /\ requests' = [requests EXCEPT ![k] = @ + 1]
        /\ fetched' = Sent(k, res)
        /\ served' = Append(served, [page |-> k, ids |-> RawIds(res.body.results)])
        /\ IF r.raised # "none"
             THEN /\ raised' = r.raised
                  /\ pc' = "done"
                  /\ records' = <<>>
                  /\ api_res_next' = NoPage
             ELSE /\ raised' = raised
                  /\ pc' = "paging"
                  /\ records' = Accumulate(recs, r.results)
                  /\ api_res_next' = r.next
        /\ UNCHANGED <<nextOf, returned, mpps, tmpdir, fs, i, asset,
                       final_filename, cur, totals, attempts, progress,
                       faults, dl, cf>>

\* line 196
FetchFirstPage ==
  /\ pc = "retrieve"
  /\ Fetch(1, <<>>)

\* lines 198-200
FetchNextPage ==
  /\ pc = "paging"
  /\ LoopContinues(api_res_next)
  /\ Fetch(api_res_next, records)

\* line 201 and the assignment of line 553
FetchReturn ==
  /\ pc = "paging"
  /\ ~ LoopContinues(api_res_next)
  /\ returned' = TRUE
  /\ mpps' = records
  /\ pc' = "backup"
  /\ UNCHANGED <<nextOf, requests, api_res_next, records, served, fetched,
                 raised, tmpdir, fs, i, asset, final_filename, cur, totals,
                 attempts, progress, faults, dl, cf>>

\* no call made yet, no exception caught, none that left _process_url
NoCalls ==
  [download |-> 0, compress |-> 0, upload |-> 0, delete |-> 0,
   downloaded |-> <<>>, compress_error |-> "none", compress_logged |-> FALSE,
   upload_error |-> "none", Filename |-> <<>>, Key |-> <<>>,
   delete_error |-> "none", removed |-> <<>>, raised |-> "none"]

NotFetched == [page |-> 0, status_code |-> 200, json |-> TRUE, lacks |-> {}]

\* lines 409-412; the log of the fetch is dropped once the fetch is over
BackupEnter ==
  /\ pc = "backup"
  /\ tmpdir' = "created"
  /\ i' = 1
  /\ pc' = "loop"
  /\ served' = <<>>
  /\ fetched' = NotFetched
  /\ UNCHANGED <<nextOf, requests, api_res_next, records, returned, mpps,
                 raised, fs, asset, final_filename, cur, totals, attempts,
                 progress, faults, dl, cf>>

\* str.upper() of mp_name raises when the value is not a string
upper_raises(mp_name) == mp_name = None

\* the except clause of lines 420-424 formats its message with
\* mpp.mp_name.upper() again
handler_raises(mpp) == upper_raises(mpp["mp_name"])

\* (variant: the directory is not a context manager, nothing removes it)
LeaveOpen ==
  /\ tmpdir' = tmpdir
  /\ fs' = fs

\* leaving the with block removes the directory and what it holds
LeaveWith ==
  /\ tmpdir' = "removed"
  /\ fs' = {}

\* lines 413-416: the next record, or the end of the loop
RecordStart ==
  /\ pc = "loop"
  /\ i <= Len(mpps)
  /\ IF upper_raises(mpps[i]["mp_name"])
       THEN IF handler_raises(mpps[i])
              THEN /\ raised' = "AttributeError"
                   /\ pc' = "done"
                   /\ LeaveWith
                   /\ UNCHANGED asset
              ELSE /\ pc' = "progress"
                   /\ UNCHANGED <<raised, tmpdir, fs, asset>>
       ELSE /\ pc' = "download"
            /\ asset' = 1
            /\ UNCHANGED <<raised, tmpdir, fs>>
  /\ UNCHANGED <<nextOf, requests, api_res_next, records, served, fetched,
                 returned, mpps, i, final_filename, cur, totals, attempts,
                 progress, faults, dl, cf>>

\* the filename backup_mpps passes to _process_url (lines 416, 418)
AssetFilename(mpp, a) == tmpdirname \o <<"/", mpp["id"], ".", Assets[a]>>

\* ---------------------------------------------------------- _process_url
\* where _process_url goes after each of its four try blocks, given what
\* the block raised: the next block, "return", or "raise" when the exception
\* leaves _process_url
\* (variant: the downloaded file is uploaded as it is)
after_download_skip(e) == IF e # "none" THEN "return" ELSE "upload"

\* lines 375-379
after_download(e) == IF e # "none" THEN "return" ELSE "compress"

\* (variant: an exception of _compress_file ends _process_url)
after_compress_stop(e) == IF e # "none" THEN "return" ELSE "upload"

\* lines 380-384
after_compress(e) == "upload"

\* (variant: an upload that fails ends _process_url)
after_upload_skip(e) == IF e # "none" THEN "return" ELSE "delete"

\* lines 385-394
after_upload(e) == "delete"

\* (variant: a removal that fails is tried again)
after_delete_retry(e) == IF e # "none" THEN "delete" ELSE "return"

\* lines 395-399
after_delete(e) == "return"

\* _process_url goes on, returns to the loop body (the second URL, then the
\* PROGRESS line), or raises into the except clause of line 420; the file
\* names of this model's records are strings, so that clause only logs
Goto(step) ==
  CASE step = "return" ->
         IF asset = 1
           THEN asset' = 2 /\ pc' = "download"
           ELSE asset' = asset /\ pc' = "progress"
    [] step = "raise" -> asset' = asset /\ pc' = "progress"
    [] OTHER -> asset' = asset /\ pc' = step

Escapes(step, e) == IF step = "raise" THEN e ELSE "none"

\* the environments that differ in what download_url looks at
RunDownloadEnvs ==
  {e \in DownloadEnvs :
     LET got == IF e.r1 = "SSLError" THEN e.r2 ELSE e.r1
         ct == strip(lower(headers_get(e.headers)))
     IN  /\ e.r1 # "SSLError" => e.r2 = "ok"
         /\ got # "ok" => e.status_code = 200
         /\ (got # "ok" \/ raise_for_status(e.status_code)) => ~ e.headers.present
         /\ (~ e.headers.present \/ Len(split(ct, "/")) < 2) => e.write = "ok"}

\* line 376
Download ==
  /\ pc = "download"
  /\ \E r \in {download_url(env, AssetFilename(mpps[i], asset)) :
                 env \in RunDownloadEnvs} :
       LET step == after_download(r.raised)
           cost == IF r.raised # "none" /\ r.files # {} THEN 1 ELSE 0
       IN  /\ faults + cost <= MaxFsFaults
           /\ faults' = faults + cost
           /\ fs' = fs \cup r.files
           /\ final_filename' = r.final_filename
           /\ attempts' = [attempts EXCEPT ![i][asset] = @ + 1]
           /\ totals' = [totals EXCEPT !.download = @ + 1]
           /\ cur' = [NoCalls EXCEPT !.download = 1,
                                     !.downloaded = r.final_filename,
                                     !.raised = Escapes(step, r.raised)]
           /\ Goto(step)
  /\ UNCHANGED <<nextOf, requests, api_res_next, records, served, fetched,
                 returned, mpps, raised, tmpdir, i, progress, dl, cf>>

\* the environments that differ in what _compress_file looks at for the file
DefaultRun == [kind |-> "exit", returncode |-> 0, diag |-> "none"]

CompressEnvsFor(filename) ==
  LET ext == splitext(filename)[2]
  IN  IF ext = <<".", "pdf">>
        THEN {e \in CompressEnvs :
                e.jpegoptim = DefaultRun /\ e.pngcrush = DefaultRun /\ e.mv = "ok"}
      ELSE IF ext \in {<<".", "jpeg">>, <<".", "png">>}
        THEN {e \in CompressEnvs : e.gs = "ok" /\ ~ e.gs_tmp /\ e.gsmv = "ok"}
      ELSE {e \in CompressEnvs :
              /\ e.jpegoptim = DefaultRun /\ e.pngcrush = DefaultRun
              /\ e.mv = "ok" /\ e.gs = "ok" /\ ~ e.gs_tmp /\ e.gsmv = "ok"}

\* line 382
Compress ==
  /\ pc = "compress"
  /\ \E r \in {_compress_file(env, final_filename, fs) :
                 env \in CompressEnvsFor(final_filename)} :
       LET step == after_compress(r.raised)
           new == IF r.raised = "none" THEN r.filename ELSE final_filename
           cost == IF r.fs # (fs \ {final_filename}) \cup {new} THEN 1 ELSE 0
       IN  /\ faults + cost <= MaxFsFaults
           /\ faults' = faults + cost
           /\ fs' = r.fs
           /\ final_filename' = new
           /\ cur' = [cur EXCEPT !.compress = @ + 1,
                                 !.compress_error = r.raised,
                                 !.compress_logged = r.logged # "none",
                                 !.raised = Escapes(step, r.raised)]
           /\ Goto(step)
  /\ UNCHANGED <<nextOf, requests, api_res_next, records, served, fetched,
                 returned, mpps, raised, tmpdir, i, totals, attempts,
                 progress, dl, cf>>

\* s3client.upload_file: it fails when the file is not there, and may fail
\* when it is
UploadOutcomes(filename) ==
  IF filename \in fs THEN {"none", "S3UploadFailedError"}
                     ELSE {"FileNotFoundError"}

\* (variant: the key is taken from the name _process_url was called with)
upload_file_args_given(filename, final) ==
  [Filename |-> final, Key |-> basename(filename)]

\* the Filename and Key arguments of s3client.upload_file
upload_file_args(filename, final) ==
  [Filename |-> final, Key |-> basename(final)]

\* lines 387-392
Upload ==
  /\ pc = "upload"
  /\ LET args == upload_file_args(AssetFilename(mpps[i], asset),
                               final_filename)
     IN  \E e \in UploadOutcomes(args.Filename) :
       LET step == after_upload(e)
       IN  /\ cur' = [cur EXCEPT !.upload = @ + 1,
                                 !.upload_error = e,
                                 !.Filename = args.Filename,
                                 !.Key = args.Key,
                                 !.raised = Escapes(step, e)]
           /\ Goto(step)
  /\ UNCHANGED <<nextOf, requests, api_res_next, records, served, fetched,
                 returned, mpps, raised, tmpdir, fs, i, final_filename,
                 totals, attempts, progress, faults, dl, cf>>

\* os.remove: it fails when the file is not there, and may fail when it is
DeleteOutcomes(filename) ==
  IF filename \in fs THEN {"none", "OSError"} ELSE {"FileNotFoundError"}

\* line 397
Delete ==
  /\ pc = "delete"
  /\ \E e \in DeleteOutcomes(final_filename) :
       LET step == after_delete(e)
           cost == IF e = "OSError" THEN 1 ELSE 0
       IN  /\ faults + cost <= MaxFsFaults
           /\ faults' = faults + cost
           /\ fs' = IF e = "none" THEN fs \ {final_filename} ELSE fs
           /\ cur' = [cur EXCEPT !.delete = @ + 1,
                                 !.delete_error = e,
                                 !.removed = final_filename,
                                 !.raised = Escapes(step, e)]
           /\ Goto(step)
  /\ UNCHANGED <<nextOf, requests, api_res_next, records, served, fetched,
                 returned, mpps, raised, tmpdir, i, final_filename, totals,
                 attempts, progress, dl, cf>>

\* line 425
Progress ==
  /\ pc = "progress"
  /\ progress' = Append(progress, <<i, Len(mpps)>>)
  /\ i' = i + 1
  /\ pc' = "loop"
  /\ UNCHANGED <<nextOf, requests, api_res_next, records, served, fetched,
                 returned, mpps, raised, tmpdir, fs, asset, final_filename,
                 cur, totals, attempts, faults, dl, cf>>

\* the loop of line 413 is over: the with block of line 410 is left
BackupExit ==
  /\ pc = "loop"
  /\ i > Len(mpps)
  /\ LeaveWith
  /\ pc' = "done"
  /\ UNCHANGED <<nextOf, requests, api_res_next, records, served, fetched,
                 returned, mpps, raised, i, asset, final_filename, cur,
                 totals, attempts, progress, faults, dl, cf>>

\* ---------------------------------------------------- the specifications
\* the listings: every page links to the following one or ends the listing;
\* the pages past the end of the listing are never asked for and link nowhere
Listings ==
  {f \in [Pages -> Pages \cup {NoPage}] :
     /\ \A k \in Pages : f[k] \in {NoPage, k + 1}
     /\ f[MaxPages] = NoPage
     /\ \A k \in Pages \ {1} : f[k - 1] = NoPage => f[k] = NoPage}

DlIdle ==
  [env |-> [r1 |-> "ok", r2 |-> "ok", status_code |-> 200,
            headers |-> [present |-> FALSE, value |-> <<>>], write |-> "ok"],
   filename |-> <<>>, called |-> FALSE,
   out |-> [raised |-> "none", final_filename |-> <<>>, files |-> {},
            requests |-> <<>>]]

CfIdle ==
  [env |-> [gs |-> "ok", gs_tmp |-> FALSE, gsmv |-> "ok",
            jpegoptim |-> DefaultRun, pngcrush |-> DefaultRun, mv |-> "ok"],
   filename |-> <<>>, called |-> FALSE,
   out |-> [raised |-> "none", msg |-> "", filename |-> <<>>, fs |-> {},
            tools |-> <<>>, logged |-> "none"],
   again |-> FALSE,
   out2 |-> [raised |-> "none", msg |-> "", filename |-> <<>>, fs |-> {},
             tools |-> <<>>, logged |-> "none"]]

\* everything but pc, nextOf, fs, dl and cf before main() has done anything
Start ==
  /\ requests = [k \in Pages |-> 0]
  /\ api_res_next = NoPage
  /\ records = <<>>
  /\ served = <<>>
  /\ fetched = NotFetched
  /\ returned = FALSE
  /\ mpps = <<>>
  /\ raised = "none"
  /\ tmpdir = "absent"
  /\ i = 0
  /\ asset = 1
  /\ final_filename = <<>>
  /\ cur = NoCalls
  /\ totals = [download |-> 0]
  /\ attempts = [n \in 1..MaxRecords |-> [a \in 1..2 |-> 0]]
  /\ progress = <<>>
  /\ faults = 0

Init ==
  /\ Start
  /\ pc = "retrieve"
  /\ nextOf \in Listings
  /\ fs = {}
  /\ dl = DlIdle
  /\ cf = CfIdle

Next ==
  \/ FetchFirstPage
  \/ FetchNextPage
  \/ FetchReturn
  \/ BackupEnter
  \/ RecordStart
  \/ Download
  \/ Compress
  \/ Upload
  \/ Delete
  \/ Progress
  \/ BackupExit

Spec == Init /\ [][Next]_vars


\* download_url alone: one call, for every response the server can give
DlFilenames == {AssetFilename(ApiDict("full", "1"), a) : a \in 1..2}

InitDownload ==
  /\ Start
  /\ pc = "download_url"
  /\ nextOf = [k \in Pages |-> NoPage]
  /\ fs = {}
  /\ dl \in {[DlIdle EXCEPT !.env = e, !.filename = f] :
               e \in DownloadEnvs, f \in DlFilenames}
  /\ cf = CfIdle

CallDownloadUrl ==
  /\ pc = "download_url"
  /\ LET out == download_url(dl.env, dl.filename)
     IN  /\ dl' = [dl EXCEPT !.called = TRUE, !.out = out]
         /\ fs' = fs \cup out.files
         /\ final_filename' = out.final_filename
  /\ pc' = "done"
  /\ UNCHANGED <<nextOf, requests, api_res_next, records, served, fetched,
                 returned, mpps, raised, tmpdir, i, asset, cur, totals,
                 attempts, progress, faults, cf>>

NextDownload == CallDownloadUrl

SpecDownload == InitDownload /\ [][NextDownload]_vars

\* _compress_file alone: one call on a file of the scratch directory, for
\* every behaviour of the tools, and a second call on what the first returned
CfFilenames ==
  {AssetFilename(ApiDict("full", "1"), 2) \o <<".", e>> :
     e \in {"pdf", "jpeg", "png", "html", "PNG"}}

InitCompress ==
  /\ Start
  /\ pc = "_compress_file"
  /\ nextOf = [k \in Pages |-> NoPage]
  /\ cf \in {[CfIdle EXCEPT !.env = e, !.filename = f] :
               e \in CompressEnvs, f \in CfFilenames}
  /\ fs = {cf.filename}
  /\ dl = DlIdle

CallCompressFile ==
  /\ pc = "_compress_file"
  /\ LET out == _compress_file(cf.env, cf.filename, fs)
     IN  /\ cf' = [cf EXCEPT !.called = TRUE, !.out = out]
         /\ fs' = out.fs
         /\ final_filename' = IF out.raised = "none" THEN out.filename
                                                    ELSE cf.filename
  /\ pc' = "_compress_file again"
  /\ UNCHANGED <<nextOf, requests, api_res_next, records, served, fetched,
                 returned, mpps, raised, tmpdir, i, asset, cur, totals,
                 attempts, progress, faults, dl>>

\* the tools behave on the second call as they did on the first
CallCompressFileAgain ==
  /\ pc = "_compress_file again"
  /\ LET out == _compress_file(cf.env, final_filename, fs)
     IN  /\ cf' = [cf EXCEPT !.again = TRUE, !.out2 = out]
         /\ fs' = out.fs
         /\ final_filename' = IF out.raised = "none" THEN out.filename
                                                    ELSE final_filename
  /\ pc' = "done"
  /\ UNCHANGED <<nextOf, requests, api_res_next, records, served, fetched,
                 returned, mpps, raised, tmpdir, i, asset, cur, totals,
                 attempts, progress, faults, dl>>

NextCompress == CallCompressFile \/ CallCompressFileAgain

SpecCompress == InitCompress /\ [][NextCompress]_vars

\* ============================================================ properties
\* the pages of the listing, from the first one to the one whose next is null
RECURSIVE Chain(_)
Chain(k) == IF nextOf[k] = NoPage THEN <<k>> ELSE <<k>> \o Chain(nextOf[k])

RECURSIVE Flatten(_)
Flatten(ss) == IF ss = <<>> THEN <<>> ELSE Head(ss) \o Flatten(Tail(ss))

RECURSIVE SumLen(_)
SumLen(ss) == IF ss = <<>> THEN 0 ELSE Len(Head(ss)) + SumLen(Tail(ss))

\* the last _process_url got its file and has run to its end
ProcessedAsset ==
  /\ pc \notin {"compress", "upload", "delete"}
  /\ cur.download = 1
  /\ final_filename # <<>>

\* the last _process_url failed to download
FailedDownload == cur.download = 1 /\ final_filename = <<>>

\* C1: when backup_mpps is over, download_url has been called once for each
\* of the two assets of every record (2N calls) and nothing was raised; an
\* asset whose download failed had no compression, upload or deletion.
C1_EveryAssetAttempted ==
  /\ (pc = "done" /\ returned) =>
       /\ raised = "none"
       /\ totals.download = 2 * Len(mpps)
       /\ \A n \in 1..Len(mpps) : \A a \in 1..2 : attempts[n][a] = 1
  /\ FailedDownload =>
       cur.compress = 0 /\ cur.upload = 0 /\ cur.delete = 0

\* C2: no error of a record leaves backup_mpps: once the fetch has returned,
\* the run ends without an exception and every record got its PROGRESS line.
C2_RecordErrorsContained ==
  (pc = "done" /\ returned) =>
    /\ raised = "none"
    /\ Len(progress) = Len(mpps)

\* C3: after a successful download _process_url calls the upload once and
\* then os.remove once, whatever the compression and the upload did, and no
\* exception leaves _process_url.
C3_UploadThenDelete ==
  /\ cur.raised = "none"
  /\ pc = "upload" => cur.download = 1 /\ cur.upload = 0 /\ cur.delete = 0
  /\ pc = "delete" => cur.upload = 1 /\ cur.delete = 0
  /\ ProcessedAsset => cur.upload = 1 /\ cur.delete = 1

\* C3 witness: an asset whose upload failed and whose deletion failed too has
\* run to its end
C3_Witness ==
  /\ ProcessedAsset
  /\ cur.upload_error = "S3UploadFailedError"
  /\ cur.delete_error = "OSError"
  /\ cur.upload = 1 /\ cur.delete = 1

\* C4: when the fetch returns, every page of the listing up to the first one
\* whose next is null was requested exactly once, in order, no other page
\* was requested, and the records are the pages' results concatenated in
\* page order.
C4_FetchConcatenatesPages ==
  /\ \A k \in Pages : requests[k] <= 1
  /\ pc = "backup" =>
       /\ [j \in 1..Len(served) |-> served[j].page] = Chain(1)
       /\ \A k \in Pages :
            requests[k] = IF \E j \in 1..Len(Chain(1)) : Chain(1)[j] = k
                            THEN 1 ELSE 0
       /\ [n \in 1..Len(mpps) |-> mpps[n]["id"]]
            = Flatten([j \in 1..Len(served) |-> served[j].ids])
       /\ Len(mpps) = SumLen([j \in 1..Len(served) |-> served[j].ids])

\* C4 witness: a fetch over two pages, both with records, has returned
C4_Witness ==
  /\ pc = "backup"
  /\ Len(served) = 2
  /\ Len(served[1].ids) = 1
  /\ Len(served[2].ids) = 1

\* C5: a fetch that meets a record lacking a field ends with
\* ExtraviadosMxApiException and returns nothing, whichever field it is.
C5_MissingFieldIsApiException ==
  fetched.lacks # {} =>
    /\ pc = "done"
    /\ raised = "ExtraviadosMxApiException"
    /\ ~ returned

\* C6: a listing page answered with another status than 200 or with a body
\* that is not JSON ends the run with the fetch's exception: the page is not
\* requested again, no record is returned, no scratch directory is created
\* and no asset is downloaded, compressed, uploaded or deleted.
C6_ListingFailureEndsRun ==
  (fetched.page # 0 /\ (fetched.status_code # 200 \/ ~ fetched.json)) =>
    /\ pc = "done"
    /\ raised = "ExtraviadosMxApiException"
    /\ ~ returned
    /\ mpps = <<>>
    /\ requests[fetched.page] = 1
    /\ tmpdir = "absent"
    /\ fs = {}
    /\ totals.download = 0
    /\ cur = NoCalls

\* C6 witness: the second page fails after the first one delivered records
C6_Witness ==
  /\ fetched.page = 2
  /\ fetched.status_code = 500
  /\ Len(served) = 2
  /\ Len(served[1].ids) = 2
  /\ pc = "done"

\* ---------------------------------------------- download_url (SpecDownload)
\* the outcome of the request whose response download_url uses
FinalGet == IF dl.env.r1 = "SSLError" THEN dl.env.r2 ELSE dl.env.r1

\* download_url wrote the file named filename + "." + ext and returned its name
Wrote(ext) ==
  /\ dl.out.raised = "none"
  /\ dl.out.final_filename = dl.filename \o <<".", ext>>
  /\ dl.out.files = {dl.filename \o <<".", ext>>}
  /\ fs = {dl.filename \o <<".", ext>>}

\* download_url failed and no file exists
FailedUnwritten == dl.out.raised # "none" /\ dl.out.files = {} /\ fs = {}

\* for a response that arrived with status 200 and can be written: the
\* declared values in pdfs give .pdf, those in jpegs .jpeg, those in pngs
\* .png, those in htmls .html, and every other value or a missing header
\* makes the call fail without a file
ExtensionRule(pdfs, jpegs, pngs, htmls) ==
  (dl.called /\ FinalGet = "ok" /\ dl.env.status_code = 200) =>
    LET h == dl.env.headers
    IN  IF h.present /\ h.value \in pdfs
          THEN dl.env.write = "ok" => Wrote("pdf")
        ELSE IF h.present /\ h.value \in jpegs
          THEN dl.env.write = "ok" => Wrote("jpeg")
        ELSE IF h.present /\ h.value \in pngs
          THEN dl.env.write = "ok" => Wrote("png")
        ELSE IF h.present /\ h.value \in htmls
          THEN dl.env.write = "ok" => Wrote("html")
        ELSE FailedUnwritten

\* C7 as stated: every PDF type gives .pdf, every JPEG image type .jpeg,
\* every PNG image type .png, every HTML text type .html (whatever its case,
\* surrounding blanks or parameters), every other declared type or a missing
\* header fails and no file is written.
C7_Stated ==
  ExtensionRule(
    {<<"application", "/", "pdf">>,
     <<"application", "/", "pdf", ";", " ", "charset=binary">>},
    {<<"image", "/", "jpeg">>},
    {<<"image", "/", "png">>, <<"IMAGE", "/", "PNG">>,
     <<" ", "image", "/", "png", " ">>},
    {<<"text", "/", "html", ";", " ", "charset=utf-8">>,
     <<"Text", "/", "HTML", ";", " ", "charset=UTF-8">>,
     <<"text", "/", "html">>,
     <<"text", "/", "html", ";", "charset=utf-8">>})

\* C7 amended: the declared value, lower-cased and without surrounding
\* blanks, is compared as a whole: exactly application/pdf gives .pdf,
\* image/jpeg .jpeg, image/png .png and "text/html; charset=utf-8" .html;
\* every other value (text/plain, a missing header, a bare text/html, a type
\* with other parameters) fails and no file is written.
C7_ExactContentType ==
  ExtensionRule(
    {<<"application", "/", "pdf">>},
    {<<"image", "/", "jpeg">>},
    {<<"image", "/", "png">>, <<"IMAGE", "/", "PNG">>,
     <<" ", "image", "/", "png", " ">>},
    {<<"text", "/", "html", ";", " ", "charset=utf-8">>,
     <<"Text", "/", "HTML", ";", " ", "charset=UTF-8">>})

\* C7 witness: a response declaring IMAGE/PNG was saved as .png
C7_Witness ==
  /\ dl.called
  /\ dl.env.headers.present
  /\ dl.env.headers.value = <<"IMAGE", "/", "PNG">>
  /\ Wrote("png")

\* at most two requests, the second one without certificate validation and
\* exactly after a certificate error of the first; other failures of the
\* first request and failures of the second leave download_url; a final
\* response whose status is in failing makes the call fail before any file
\* is written
RequestRule(failing) ==
  dl.called =>
    LET reqs == dl.out.requests
    IN  /\ Len(reqs) \in {1, 2}
        /\ reqs[1].verify
        /\ (Len(reqs) = 2) <=> (dl.env.r1 = "SSLError")
        /\ Len(reqs) = 2 => ~ reqs[2].verify
        /\ dl.env.r1 = "ConnectionError" => dl.out.raised = "ConnectionError"
        /\ (dl.env.r1 = "SSLError" /\ dl.env.r2 # "ok") =>
             dl.out.raised = dl.env.r2
        /\ (FinalGet = "ok" /\ dl.env.status_code \in failing) =>
             FailedUnwritten

\* C8 as stated: ... and every status of the final response that is not a
\* success (not 2xx) makes the call fail before any file is written.
C8_Stated ==
  RequestRule({sc \in StatusCodes : sc < 200 \/ sc >= 300})

\* C8 amended: ... and an error status (4xx, 5xx) of the final response makes
\* the call fail before any file is written; any other status is handled as
\* a success.
C8_RetryOnceOnCertificateError ==
  RequestRule({sc \in StatusCodes : sc >= 400 /\ sc < 600})

\* C8 witness: the retry without validation was answered with a 404
C8_Witness ==
  /\ dl.called
  /\ dl.env.r1 = "SSLError"
  /\ dl.env.r2 = "ok"
  /\ dl.env.status_code = 404
  /\ Len(dl.out.requests) = 2
  /\ dl.out.raised = "HTTPError"

\* -------------------------------------------- _compress_file (SpecCompress)
CfRoot == AssetFilename(ApiDict("full", "1"), 2)

\* the tool ended and wrote its "Not a ... file" diagnostic
Reports(run) == run.kind = "exit" /\ run.diag # "none"

\* the tool ended with return code 0 and without diagnostic
Clean(run) == run.kind = "exit" /\ run.returncode = 0 /\ run.diag = "none"

Count(seq, x) == Cardinality({k \in 1..Len(seq) : seq[k] = x})

\* C9: a .jpeg file for which jpegoptim reports "Not a JPEG file", with any
\* return code and on any stream, goes through the PNG path and, when
\* pngcrush and the rename succeed, is returned as .png; a .png file for
\* which pngcrush reports "Not a PNG file" goes through the JPEG path and is
\* returned as .jpeg.
C9_MismatchFallsBack ==
  cf.called =>
    /\ ( /\ cf.filename = CfRoot \o <<".", "jpeg">>
         /\ Reports(cf.env.jpegoptim)
         /\ Clean(cf.env.pngcrush)
         /\ cf.env.mv = "ok" ) =>
           /\ cf.out.raised = "none"
           /\ Count(cf.out.tools, "pngcrush") = 1
           /\ cf.out.filename = CfRoot \o <<".", "png">>
    /\ ( /\ cf.filename = CfRoot \o <<".", "png">>
         /\ Reports(cf.env.pngcrush)
         /\ Clean(cf.env.jpegoptim)
         /\ cf.env.mv = "ok" ) =>
           /\ cf.out.raised = "none"
           /\ Count(cf.out.tools, "jpegoptim") = 1
           /\ cf.out.filename = CfRoot \o <<".", "jpeg">>

\* the sibling path raises: its tool does not end with return code 0,
\* pngcrush writes its own diagnostic to stderr, or mv cannot be started
PngPathFails ==
  \/ cf.env.pngcrush.kind # "exit"
  \/ cf.env.pngcrush.returncode # 0
  \/ cf.env.pngcrush.diag = "stderr"
  \/ cf.env.mv = "FileNotFoundError"

JpegPathFails ==
  \/ cf.env.jpegoptim.kind # "exit"
  \/ cf.env.jpegoptim.returncode # 0
  \/ cf.env.mv = "FileNotFoundError"

Downloaded(ext) ==
  cur.downloaded # <<>> /\ splitext(cur.downloaded)[2] = <<".", ext>>

\* _compress_file was called and the transform failed: the exception left
\* _compress_file, or was logged inside it
TransformFailed ==
  cur.compress = 1 /\ (cur.compress_error # "none" \/ cur.compress_logged)

\* C11: when the transform of a .pdf asset fails (whether the exception is
\* caught inside _compress_file or leaves it), the file is still in the
\* scratch directory under the name download_url gave it, nothing leaves
\* _process_url, and that very file is the one handed to the upload and then
\* to the removal
C11_PdfFailureKeepsOriginal ==
  (Downloaded("pdf") /\ TransformFailed) =>
    /\ final_filename = cur.downloaded
    /\ cur.raised = "none"
    /\ pc \in {"upload", "delete"} => cur.downloaded \in fs
    /\ pc # "upload" => cur.upload = 1 /\ cur.Filename = cur.downloaded
    /\ pc \notin {"upload", "delete"} =>
         cur.delete = 1 /\ cur.removed = cur.downloaded

\* a gs that timed out, then the original uploaded and removed
C11_Witness ==
  /\ Downloaded("pdf")
  /\ cur.compress_error = "TimeoutExpired"
  /\ cur.upload_error = "none"
  /\ cur.delete = 1 /\ cur.delete_error = "none"
  /\ cur.removed \notin fs

InBackup == pc \in {"loop", "download", "compress", "upload", "delete",
                    "progress"}

\* C13: the scratch directory is created once, when backup_mpps starts, and
\* removed once, when backup_mpps ends, by its return and by an exception
\* that leaves the loop alike; it exists while backup_mpps runs, and no file
\* is left once it has ended
C13_ScratchDirectoryRemoved ==
  /\ [](/\ InBackup => tmpdir = "created"
        /\ tmpdir # "created" => fs = {}
        /\ pc = "done" /\ returned => tmpdir = "removed"
        /\ ~ returned => tmpdir = "absent")
  /\ [][tmpdir' # tmpdir =>
          \/ tmpdir = "absent" /\ tmpdir' = "created" /\ pc = "backup"
          \/ tmpdir = "created" /\ tmpdir' = "removed" /\ pc' = "done"]_vars

\* an exception left the loop after a fault had left a file behind
C13_Witness ==
  /\ pc = "done" /\ raised = "AttributeError"
  /\ i = 2 /\ faults = 1 /\ cur.delete_error = "OSError"
  /\ tmpdir = "removed" /\ fs = {}

\* ------------------------------------------- _compress_file, other files
\* the extension of the file _compress_file was called with is not one of
\* the three it handles
Unsupported ==
  splitext(cf.filename)[2] \notin {<<".", "pdf">>, <<".", "jpeg">>, <<".", "png">>}

\* C14: on a file whose extension is none of .pdf, .jpeg and .png,
\* _compress_file runs no tool, raises nothing, leaves the scratch directory
\* as it was and returns the name it was given; a second call on the name it
\* returned does the same
C14_OtherFilesUntouched ==
  Unsupported =>
    /\ cf.called =>
         /\ cf.out.tools = <<>>
         /\ cf.out.raised = "none" /\ cf.out.logged = "none"
         /\ cf.out.filename = cf.filename
         /\ cf.out.fs = {cf.filename}
    /\ cf.again => cf.out2 = cf.out
    /\ fs = {cf.filename}

\* the .html file after the two calls, whatever the tools would have done
C14_Witness ==
  /\ cf.again
  /\ cf.filename = CfRoot \o <<".", "html">>
  /\ ~ Clean(cf.env.jpegoptim) /\ cf.env.gs # "ok" /\ cf.env.mv = "failed"
  /\ final_filename = cf.filename

\* ------------------------------------------------------ the PROGRESS lines
\* the PROGRESS lines logged so far count 1, 2, ... against the total
CountsUp == \A k \in 1..Len(progress) : progress[k] = <<k, Len(mpps)>>

\* C15: the PROGRESS lines count 1, 2, ... against the number of records; the
\* line of a record is logged only after download_url was called for both of
\* its URLs and both calls of _process_url are over; and when backup_mpps
\* has ended there is one line per record, the last one being N / N
C15_ProgressAfterEveryRecord ==
  /\ CountsUp
  /\ \A n \in 1..Len(progress) :
       attempts[n] = [a \in 1..2 |-> 1] /\ (n = i => pc = "loop")
  /\ (pc = "done" /\ returned) => Len(progress) = Len(mpps)

\* ------------------------------------------------- the order of the steps
\* the calls a _process_url has made when it is over
Finished(c) ==
  /\ c.download = 1
  /\ \/ c.downloaded = <<>> /\ c.compress = 0 /\ c.upload = 0 /\ c.delete = 0
     \/ c.compress = 1 /\ c.upload = 1 /\ c.delete = 1

\* the calls made so far by the running _process_url
Calls == <<cur.download, cur.compress, cur.upload, cur.delete>>

\* C16: one asset at a time and one step at a time: the steps of an asset
\* are taken in the order download, compression, upload, removal; the
\* download of the poster starts when the _process_url of the post is over;
\* a record is started when both assets of every earlier record are over,
\* and nothing of a later record has been touched
C16_StrictlySequential ==
  /\ pc = "compress" => Calls = <<1, 0, 0, 0>>
  /\ pc = "upload" => Calls = <<1, 1, 0, 0>>
  /\ pc = "delete" => Calls = <<1, 1, 1, 0>>
  /\ pc \in {"loop", "download", "progress"} => cur = NoCalls \/ Finished(cur)
  /\ pc \in {"compress", "upload", "delete"} =>
       attempts[i] = [a \in 1..2 |-> IF a <= asset THEN 1 ELSE 0]
  /\ pc = "download" =>
       attempts[i] = [a \in 1..2 |-> IF a < asset THEN 1 ELSE 0]
  /\ pc = "progress" => attempts[i] = [a \in 1..2 |-> 1]
  /\ InBackup =>
       \A n \in 1..MaxRecords :
         /\ n < i => attempts[n] = [a \in 1..2 |-> 1]
         /\ (n > i \/ (pc = "loop" /\ n = i)) =>
              attempts[n] = [a \in 1..2 |-> 0]

\* the poster of the second record is about to be downloaded: its post and
\* the first record have gone through the four steps
C16_Witness ==
  /\ pc = "download" /\ i = 2 /\ asset = 2
  /\ Calls = <<1, 1, 1, 1>>
  /\ attempts = <<<<1, 1>>, <<1, 0>>>>

\* ------------------------------------------------- what is left behind
\* the files of the scratch directory that stem from the asset of the last
\* _process_url: the downloaded file under any extension, and the files
\* whose names are derived from its name
AssetFiles ==
  LET root == splitext(cur.downloaded)[1]
  IN  {f \in fs : Len(f) >= Len(root) /\ SubSeq(f, 1, Len(root)) = root}

\* C17: once the _process_url of an asset is over and its os.remove did not
\* raise, no file that stems from that asset is in the scratch directory
C17_NothingLeftBehind ==
  (Finished(cur) /\ cur.delete = 1 /\ cur.delete_error = "none") =>
    AssetFiles = {}

\* ------------------------------------- _compress_file, the other failures
\* the tool of the format the extension names, and the tool of the other
FirstTool ==
  IF splitext(cf.filename)[2] = <<".", "jpeg">> THEN "jpegoptim" ELSE "pngcrush"

SiblingTool == IF FirstTool = "jpegoptim" THEN "pngcrush" ELSE "jpegoptim"

\* the run failed and printed no diagnostic: a non-zero return code, a
\* timeout, or a tool that is not installed
FailsSilently(run) ==
  \/ run.kind # "exit"
  \/ run.returncode # 0 /\ run.diag = "none"

\* C18: for a .jpeg or .png file, the tool of the other format is run only
\* when the first tool printed a diagnostic; when the first tool fails
\* without one, the other tool and mv are not run, the file keeps its name
\* and _compress_file returns the name it was given; and for every file at
\* most two compression tools are run
C18_FallbackOnlyOnMismatch ==
  cf.called =>
    /\ Count(cf.out.tools, "jpegoptim") + Count(cf.out.tools, "pngcrush") <= 2
    /\ splitext(cf.filename)[2] \in {<<".", "jpeg">>, <<".", "png">>} =>
         /\ Count(cf.out.tools, SiblingTool) > 0 => Reports(cf.env[FirstTool])
         /\ FailsSilently(cf.env[FirstTool]) =>
              /\ cf.out.tools = <<FirstTool>>
              /\ cf.out.raised = "none"
              /\ cf.out.filename = cf.filename
              /\ cf.out.fs = {cf.filename}

\* jpegoptim timed out on a .jpeg file that pngcrush would have accepted
C18_Witness ==
  /\ cf.called
  /\ cf.filename = CfRoot \o <<".", "jpeg">>
  /\ cf.env.jpegoptim.kind = "TimeoutExpired"
  /\ Clean(cf.env.pngcrush) /\ cf.env.mv = "ok"
  /\ cf.out.tools = <<"jpegoptim">>
  /\ final_filename = cf.filename /\ fs = {cf.filename}

\* ------------------------------------------------------------ no retries
\* C19: download_url, _compress_file, upload_file and os.remove are called
\* at most once for an asset, and a listing page is requested at most once,
\* whatever fails
C19_NoStepRepeated ==
  /\ \A c \in {cur.download, cur.compress, cur.upload, cur.delete} : c <= 1
  /\ \A n \in 1..MaxRecords : \A a \in 1..2 : attempts[n][a] <= 1
  /\ totals.download <= 2 * Len(mpps)
  /\ \A k \in Pages : requests[k] <= 1

\* a whole run of two pages and two records in which the last asset failed
\* to upload and to be removed
C19_Witness ==
  /\ pc = "done" /\ raised = "none"
  /\ \A k \in 1..2 : requests[k] = 1
  /\ Len(mpps) = 2 /\ totals.download = 4
  /\ Calls = <<1, 1, 1, 1>>
  /\ cur.upload_error = "S3UploadFailedError" /\ cur.delete_error = "OSError"

\* ------------------------------------------- the name _compress_file returns
\* C20: the name _compress_file returns is the name of a file of the scratch
\* directory
C20_ReturnedFileExists ==
  (cf.called /\ cf.out.raised = "none") => cf.out.filename \in cf.out.fs

\* ------------------------------------------------------------ termination
\* the records the server sent on the pages of the listing
Listed == SumLen([k \in 1..Len(served) |-> served[k].ids])

\* C21: over a listing that ends, the fetch returns as many records as the
\* pages held, and when main() has ended after the fetch every one of the N
\* records has been handled once: download_url was called once for each of
\* its two URLs and its PROGRESS line was logged
C21_TerminatesHandlingEveryRecord ==
  /\ pc = "backup" => Len(mpps) = Listed
  /\ (pc = "done" /\ returned) =>
       /\ Len(progress) = Len(mpps)
       /\ totals.download = 2 * Len(mpps)
       /\ \A n \in 1..Len(mpps) : attempts[n] = [a \in 1..2 |-> 1]

====
